---- MODULE Spec2Model ----
(***************************************************************************)
(* Model of app/routers/iri_router.py: the IriRouter adapter binding       *)
(* (create_adapter), the per-request authenticator (current_user) and the  *)
(* client-IP helper (get_real_ip).                                         *)
(*                                                                         *)
(* Strings the code transforms (the route prefix, the adapter locator) are *)
(* sequences, so that replace/strip/rsplit are computed; Python values the *)
(* code tests for truthiness are records [ty, v].                          *)
(***************************************************************************)
EXTENDS Naturals, Sequences, FiniteSets, TLC

(***************************************************************************)
(* Bounds                                                                  *)
(***************************************************************************)
\* number of requests the server accepts in one behaviour
MaxServed == 3

(***************************************************************************)
(* Python values                                                           *)
(***************************************************************************)
PyStr(s) == [ty |-> "str", v |-> s]
PyNone == [ty |-> "NoneType", v |-> "None"]
PyZero == [ty |-> "int", v |-> "0"]
PyFalse == [ty |-> "bool", v |-> "False"]
\* an attribute of request.state that was never assigned
Unset == [ty |-> "unset", v |-> ""]

\* bool(x), as Python computes it for str, NoneType, int and bool
Truthy(x) ==
    CASE x.ty = "str" -> x.v # ""
      [] x.ty = "NoneType" -> FALSE
      [] x.ty = "int" -> x.v # "0"
      [] x.ty = "bool" -> x.v = "True"

\* values an adapter's get_current_user can return
Tokens == {PyStr("u1"), PyStr("u2")}
FalsyReturns == {PyNone, PyStr(""), PyZero, PyFalse}
AdapterReturns == Tokens \cup FalsyReturns

\* exception classes an adapter's get_current_user can raise;
\* CancelledError derives from BaseException only (Python >= 3.8)
ExceptionSubclasses == {"ValueError", "HTTPException", "AttributeError"}
BaseExceptionOnly == {"CancelledError"}
AdapterRaises == {"ValueError", "HTTPException", "CancelledError"}

\* a narrower clause: `except ValueError`
ExceptClauseCatches_OnlyValueError(cls) == cls = "ValueError"

\* `except Exception` (line 65): does the clause catch an instance of cls?
ExceptClauseCatches(cls) == cls \in ExceptionSubclasses

(***************************************************************************)
(* Route prefix -> router name -> configuration key (lines 31, 36)         *)
(***************************************************************************)
\* str.replace("/", "")
RemoveSlashes(s) == SelectSeq(s, LAMBDA c : c # "/")

IsSpace(c) == c = " "

RECURSIVE LStrip(_)
LStrip(s) == IF s # <<>> /\ IsSpace(Head(s)) THEN LStrip(Tail(s)) ELSE s

RECURSIVE RStrip(_)
RStrip(s) ==
    IF s # <<>> /\ IsSpace(s[Len(s)]) THEN RStrip(SubSeq(s, 1, Len(s) - 1)) ELSE s

\* str.strip()
Strip(s) == RStrip(LStrip(s))

\* line 31: router_name = self.prefix.replace("/", "").strip()
RouterName(p) == Strip(RemoveSlashes(p))

\* the key built from the uppercased router name
AdapterEnvVar_Upper(p) == <<"IRI_API_ADAPTER_">> \o [i \in 1..Len(RouterName(p)) |->
    CASE RouterName(p)[i] = "s" -> "S" [] RouterName(p)[i] = "t" -> "T"
      [] OTHER -> RouterName(p)[i]]

\* line 36: env_var = f"IRI_API_ADAPTER_{router_name}"
AdapterEnvVar(p) == <<"IRI_API_ADAPTER_">> \o RouterName(p)

\* the key the code reads for the show-missing flag (line 38)
ShowMissingKey == <<"IRI_SHOW_MISSING_ROUTES">>
\* line 38: the values that enable it
ShowMissingTruthy == {<<"true">>, <<"1">>, <<"on">>, <<"yes">>}

\* os.environ.get(key) without default returns None
EnvNone == <<"<None>">>
EnvGet(env, key, default) == IF key \in DOMAIN env THEN env[key] ELSE default

(***************************************************************************)
(* Importable modules (importlib.import_module, getattr: lines 47-48)      *)
(***************************************************************************)
\* line 44: the default locator "app.demo_adapter.DemoAdapter"
DefaultLocator == <<"app", "demo_adapter", "DemoAdapter">>

\* the abstract contract of lines 73-99
Contract == "AuthenticatedAdapter"
AbstractMethods == {"get_current_user", "get_user"}
\* router_adapter=None is the constructor's default (line 24)
NoContract == "None"

\* a symbol of a module: a class (its ancestors, the methods it defines) or not
Class(bases, methods) == [isclass |-> TRUE, bases |-> bases, methods |-> methods]
NotAClass == [isclass |-> FALSE, bases |-> {}, methods |-> {}]

\* app.demo_adapter: the repository's sample adapter, implementing the contract
DemoModule == <<"app", "demo_adapter">> :> ("DemoAdapter" :> Class({Contract}, AbstractMethods))

FacModule ==
    <<"fac", "adapters">> :>
        (   "GoodAdapter" :> Class({Contract}, AbstractMethods)
         @@ "PartialAdapter" :> Class({Contract}, {"get_current_user"})
         @@ "DuckAdapter" :> Class({}, AbstractMethods)
         @@ "OtherClass" :> Class({}, {})
         @@ "helper" :> NotAClass)

\* sys.modules / the import path: module name -> its symbols
Modules == DemoModule @@ FacModule @@ (<<"fac">> :> ("adapters" :> NotAClass))

\* the locators a deployment may configure
GoodLocator == <<"fac", "adapters", "GoodAdapter">>
PartialLocator == <<"fac", "adapters", "PartialAdapter">>
DuckLocator == <<"fac", "adapters", "DuckAdapter">>
OtherLocator == <<"fac", "adapters", "OtherClass">>
FunctionLocator == <<"fac", "adapters", "helper">>
MissingSymbolLocator == <<"fac", "adapters", "Missing">>
MissingModuleLocator == <<"nomod", "Adapter">>
NoDotLocator == <<"fac">>
NoDotMissingLocator == <<"nomod">>
Locators ==
    {DefaultLocator, GoodLocator, PartialLocator, DuckLocator, OtherLocator,
     FunctionLocator, MissingSymbolLocator, MissingModuleLocator, NoDotLocator, NoDotMissingLocator}

\* line 46: parts = adapter_name.rsplit(".", 1); parts[1] is the module path here
\* and parts[2] the symbol (Python's parts[0] and parts[1])
RSplitLastDot(loc) ==
    IF Len(loc) <= 1 THEN <<loc>>
    ELSE <<SubSeq(loc, 1, Len(loc) - 1), loc[Len(loc)]>>

(***************************************************************************)
(* create_adapter (lines 29-54)                                            *)
(***************************************************************************)
NoAdapter == <<"<no adapter attribute>">>
NoExc == [type |-> "none", locator |-> <<>>, contract |-> ""]
\* an exception whose message is produced by the interpreter
PyRaise(type) == [type |-> type, locator |-> <<>>, contract |-> ""]
\* line 50: Exception(f"{adapter_name} should implement FacilityAdapter")
ShouldImplement(adapter_name) ==
    [type |-> "Exception", locator |-> adapter_name, contract |-> "FacilityAdapter"]

\* what construction leaves behind
Built(visible, adapter, exc, effects) ==
    [include_in_schema |-> visible, adapter |-> adapter, raised |-> exc, effects |-> effects]

\* line 38 with `or` in place of `and`
HideRoute_Or(env, p) ==
    \/ AdapterEnvVar(p) \notin DOMAIN env
    \/ EnvGet(env, ShowMissingKey, EnvNone) \notin ShowMissingTruthy

\* line 38: hide the router?
HideRoute(env, p) ==
    /\ AdapterEnvVar(p) \notin DOMAIN env
    /\ EnvGet(env, ShowMissingKey, EnvNone) \notin ShowMissingTruthy

\* line 44 with another default locator
AdapterName_OtherDefault(env, p) == EnvGet(env, AdapterEnvVar(p), GoodLocator)

\* line 44
AdapterName(env, p) == EnvGet(env, AdapterEnvVar(p), DefaultLocator)

\* the subclass check left out
IsSubclass_Unchecked(cls, router_adapter) == TRUE

\* line 49: issubclass(AdapterClass, router_adapter), when both are classes
IsSubclass(cls, router_adapter) == router_adapter \in cls.bases

\* line 54: AdapterClass() of a class deriving from the ABC of lines 73-99
\* raises TypeError while an abstract method is not overridden
IsAbstract(cls) == Contract \in cls.bases /\ ~(AbstractMethods \subseteq cls.methods)

\* lines 43-54 with the import and lookup errors swallowed
LoadAdapter_SwallowsLookupErrors(adapter_name, router_adapter) ==
    LET parts == RSplitLastDot(adapter_name)
    IN  IF parts[1] \notin DOMAIN Modules
        THEN Built(TRUE, NoAdapter, NoExc, {"import"})
        ELSE IF Len(parts) < 2
        THEN Built(TRUE, NoAdapter, PyRaise("IndexError"), {"import"})
        ELSE IF parts[2] \notin DOMAIN Modules[parts[1]]
        THEN Built(TRUE, NoAdapter, NoExc, {"import", "getattr"})
        ELSE Built(TRUE, adapter_name, NoExc,
                   {"import", "getattr", "issubclass", "instantiate"})

\* lines 43-54, after the decision not to hide
LoadAdapter(adapter_name, router_adapter) ==
    LET parts == RSplitLastDot(adapter_name)
        module == Modules[parts[1]]
        AdapterClass == module[parts[2]]
    IN  IF parts[1] \notin DOMAIN Modules
        THEN Built(TRUE, NoAdapter, PyRaise("ImportError"), {"import"})
        ELSE IF Len(parts) < 2
        THEN Built(TRUE, NoAdapter, PyRaise("IndexError"), {"import"})
        ELSE IF parts[2] \notin DOMAIN module
        THEN Built(TRUE, NoAdapter, PyRaise("AttributeError"), {"import", "getattr"})
        ELSE IF ~AdapterClass.isclass \/ router_adapter = NoContract
        THEN Built(TRUE, NoAdapter, PyRaise("TypeError"),
                   {"import", "getattr", "issubclass"})
        ELSE IF ~IsSubclass(AdapterClass, router_adapter)
        THEN Built(TRUE, NoAdapter, ShouldImplement(adapter_name),
                   {"import", "getattr", "issubclass"})
        ELSE IF IsAbstract(AdapterClass)
        THEN Built(TRUE, NoAdapter, PyRaise("TypeError"),
                   {"import", "getattr", "issubclass", "instantiate"})
        ELSE Built(TRUE, adapter_name, NoExc,
                   {"import", "getattr", "issubclass", "instantiate"})

\* create_adapter without the `return` of line 41
CreateAdapter_NoReturn(env, p, router_adapter) ==
    LET b == LoadAdapter(AdapterName(env, p), router_adapter)
    IN  IF HideRoute(env, p) THEN [b EXCEPT !.include_in_schema = FALSE] ELSE b

\* create_adapter(self, router_adapter) on a router with prefix p
CreateAdapter(env, p, router_adapter) ==
    IF HideRoute(env, p)
    THEN Built(FALSE, NoAdapter, NoExc, {})
    ELSE LoadAdapter(AdapterName(env, p), router_adapter)

(***************************************************************************)
(* get_real_ip (lines 12-20)                                               *)
(***************************************************************************)
\* request.headers.get(name) is None for an absent header; request.client is
\* None when the server gives no peer address, else client holds client.host
Returned(val) == [raised |-> FALSE, val |-> val]
RaisedAttributeError == [raised |-> TRUE, val |-> PyNone]

\* x-real-ip consulted before HTTP_X_REAL_IP
GetRealIp_XRealFirst(http_x_real_ip, x_real_ip, client) ==
    IF Truthy(x_real_ip) THEN Returned(x_real_ip)
    ELSE IF Truthy(http_x_real_ip) THEN Returned(http_x_real_ip)
    ELSE IF client = PyNone THEN RaisedAttributeError
    ELSE Returned(client)

GetRealIp(http_x_real_ip, x_real_ip, client) ==
    IF Truthy(http_x_real_ip) THEN Returned(http_x_real_ip)
    ELSE IF Truthy(x_real_ip) THEN Returned(x_real_ip)
    ELSE IF client = PyNone THEN RaisedAttributeError
    ELSE Returned(client)

(***************************************************************************)
(* State                                                                   *)
(***************************************************************************)
VARIABLES
    environ,      \* os.environ: configuration key -> value
    prefix,       \* the router's prefix (APIRouter keyword argument)
    contract,     \* the router_adapter constructor argument
    built,        \* "pending" | "done" | "failed": IriRouter(...) construction
    router,       \* include_in_schema, adapter, the exception raised, the steps run
    req,          \* per request slot: the request, current_user's locals and position
    running,      \* the coroutine the event loop is executing, or NoTask
    served        \* requests accepted so far

vars == <<environ, prefix, contract, built, router, req, running, served>>

Requests == {"r1", "r2"}
NoTask == "none"

NotCalled == [ty |-> "nocall", v |-> ""]
NoReturn == [kind |-> "none", val |-> PyNone, exc |-> ""]
NoResponse == [kind |-> "none", status |-> 0, detail |-> "", exc |-> ""]
\* line 68: HTTPException(status_code=403, detail="Unauthorized access")
Forbidden == [kind |-> "http", status |-> 403, detail |-> "Unauthorized access", exc |-> ""]
\* an exception that leaves current_user unhandled
Propagated(cls) == [kind |-> "exc", status |-> 0, detail |-> "", exc |-> cls]

Idle ==
    [pc |-> "idle", http |-> PyNone, xreal |-> PyNone, client |-> PyNone,
     api_key |-> PyNone, ip_arg |-> NotCalled, calls |-> 0, ret |-> NoReturn,
     logged |-> "", user_id |-> PyNone, uid_writes |-> 0, key_writes |-> 0,
     state_uid |-> Unset, state_key |-> Unset, resp |-> NoResponse]

Credentials == {PyStr("k1"), PyStr("k2")}

Header(h, x, c) == [http |-> h, xreal |-> x, client |-> c]
\* one request per branch of get_real_ip
BranchHeaders ==
    {Header(PyStr("1.1.1.1"), PyNone, PyStr("10.0.0.1")),
     Header(PyNone, PyStr("9.9.9.9"), PyStr("10.0.0.1")),
     Header(PyNone, PyNone, PyStr("10.0.0.1")),
     Header(PyNone, PyNone, PyNone)}
\* every combination of absent, empty and set headers, with and without a peer
AllHeaders ==
    {Header(h, x, c) : h \in {PyNone, PyStr(""), PyStr("1.1.1.1")},
                       x \in {PyNone, PyStr(""), PyStr("9.9.9.9")},
                       c \in {PyNone, PyStr("10.0.0.1")}}

(***************************************************************************)
(* Configurations                                                          *)
(***************************************************************************)
Prefixes == {<<"/", "s", "t">>, <<"/", "S", "T">>, <<"/", "s", "/", "t">>, <<"/", " ", "s", "t">>}
AdapterKeys == {<<"IRI_API_ADAPTER_", "s", "t">>, <<"IRI_API_ADAPTER_", "S", "T">>}
ShowKeys == {ShowMissingKey, <<"IRI_API_SHOW_MISSING_ROUTES">>}
ShowValues == ShowMissingTruthy \cup {<<"True">>, <<"false">>, <<"0">>}
EmptyEnv == [k \in {} |-> <<>>]

AdapterEntries == {EmptyEnv} \cup {k :> l : k \in AdapterKeys, l \in Locators}
ShowEntries == {EmptyEnv} \cup {k :> v : k \in ShowKeys, v \in ShowValues}
\* at most one adapter key and one flag key set
Environments == {a @@ f : a \in AdapterEntries, f \in ShowEntries}

\* the deployments of the concurrent specification: hidden, configured, default,
\* misconfigured
FewEnvironments ==
    {EmptyEnv,
     <<"IRI_API_ADAPTER_", "s", "t">> :> GoodLocator,
     ShowMissingKey :> <<"true">>,
     <<"IRI_API_ADAPTER_", "s", "t">> :> DuckLocator}

InitWith(envs, prefixes, contracts) ==
    /\ environ \in envs
    /\ prefix \in prefixes
    /\ contract \in contracts
    /\ built = "pending"
    /\ router = Built(TRUE, NoAdapter, NoExc, {})
    /\ req = [r \in Requests |-> Idle]
    /\ running = NoTask
    /\ served = 0

Init == InitWith(FewEnvironments, {<<"/", "s", "t">>}, {Contract})
InitSeq == InitWith(Environments, Prefixes, {Contract, NoContract})

(***************************************************************************)
(* Actions                                                                 *)
(***************************************************************************)
\* IriRouter.__init__ (lines 24-26): APIRouter.__init__, then create_adapter
Construct ==
    /\ built = "pending"
    /\ LET b == CreateAdapter(environ, prefix, contract)
       IN  /\ router' = b
           /\ built' = IF b.raised = NoExc THEN "done" ELSE "failed"
    /\ UNCHANGED <<environ, prefix, contract, req, running, served>>

\* current_user reachable while the router is still being constructed
StartRequest_BeforeBinding(r, headers) ==
    /\ built \in {"pending", "done"}
    /\ running = NoTask
    /\ req[r].pc = "idle"
    /\ served < MaxServed
    /\ served' = served + 1
    /\ \E h \in headers, k \in Credentials :
        LET ip == GetRealIp(h.http, h.xreal, h.client)
            q == [Idle EXCEPT !.http = h.http, !.xreal = h.xreal, !.client = h.client,
                              !.api_key = k]
            caught == /\ req' = [req EXCEPT ![r] =
                                [q EXCEPT !.pc = "check", !.logged = "AttributeError"]]
                      /\ running' = r
            unhandled == /\ req' = [req EXCEPT ![r] =
                                [q EXCEPT !.pc = "aborted",
                                          !.resp = Propagated("AttributeError")]]
                         /\ running' = NoTask
        IN  IF router.adapter = NoAdapter THEN caught
            ELSE IF ip.raised THEN caught
            ELSE /\ req' = [req EXCEPT ![r] =
                        [q EXCEPT !.pc = "awaiting", !.ip_arg = ip.val, !.calls = 1]]
                 /\ running' = NoTask
    /\ UNCHANGED <<environ, prefix, contract, built, router>>

\* self.adapter looked up before the try of line 63
StartRequest_AdapterOutsideTry(r, headers) ==
    /\ built = "done"
    /\ running = NoTask
    /\ req[r].pc = "idle"
    /\ served < MaxServed
    /\ served' = served + 1
    /\ \E h \in headers, k \in Credentials :
        LET ip == GetRealIp(h.http, h.xreal, h.client)
            q == [Idle EXCEPT !.http = h.http, !.xreal = h.xreal, !.client = h.client,
                              !.api_key = k]
            caught == /\ req' = [req EXCEPT ![r] =
                                [q EXCEPT !.pc = "check", !.logged = "AttributeError"]]
                      /\ running' = r
            unhandled == /\ req' = [req EXCEPT ![r] =
                                [q EXCEPT !.pc = "aborted",
                                          !.resp = Propagated("AttributeError")]]
                         /\ running' = NoTask
        IN  IF router.adapter = NoAdapter THEN unhandled
            ELSE IF ip.raised THEN caught
            ELSE /\ req' = [req EXCEPT ![r] =
                        [q EXCEPT !.pc = "awaiting", !.ip_arg = ip.val, !.calls = 1]]
                 /\ running' = NoTask
    /\ UNCHANGED <<environ, prefix, contract, built, router>>

\* get_real_ip(request) evaluated before the try of line 63
StartRequest_IpOutsideTry(r, headers) ==
    /\ built = "done"
    /\ running = NoTask
    /\ req[r].pc = "idle"
    /\ served < MaxServed
    /\ served' = served + 1
    /\ \E h \in headers, k \in Credentials :
        LET ip == GetRealIp(h.http, h.xreal, h.client)
            q == [Idle EXCEPT !.http = h.http, !.xreal = h.xreal, !.client = h.client,
                              !.api_key = k]
            caught == /\ req' = [req EXCEPT ![r] =
                                [q EXCEPT !.pc = "check", !.logged = "AttributeError"]]
                      /\ running' = r
            unhandled == /\ req' = [req EXCEPT ![r] =
                                [q EXCEPT !.pc = "aborted",
                                          !.resp = Propagated("AttributeError")]]
                         /\ running' = NoTask
        IN  IF router.adapter = NoAdapter THEN caught
            ELSE IF ip.raised THEN unhandled
            ELSE /\ req' = [req EXCEPT ![r] =
                        [q EXCEPT !.pc = "awaiting", !.ip_arg = ip.val, !.calls = 1]]
                 /\ running' = NoTask
    /\ UNCHANGED <<environ, prefix, contract, built, router>>

\* lines 62-64 up to the await: the framework calls current_user(request, api_key)
\* on the constructed router; self.adapter and get_real_ip(request) are evaluated
\* inside the try, then the adapter coroutine is awaited
StartRequest(r, headers) ==
    /\ built = "done"
    /\ running = NoTask
    /\ req[r].pc = "idle"
    /\ served < MaxServed
    /\ served' = served + 1
    /\ \E h \in headers, k \in Credentials :
        LET ip == GetRealIp(h.http, h.xreal, h.client)
            q == [Idle EXCEPT !.http = h.http, !.xreal = h.xreal, !.client = h.client,
                              !.api_key = k]
        IN  IF router.adapter = NoAdapter \/ ip.raised
            THEN \* AttributeError, caught at line 65 and logged at line 66
                 /\ req' = [req EXCEPT ![r] =
                        [q EXCEPT !.pc = "check", !.logged = "AttributeError"]]
                 /\ running' = r
            ELSE /\ req' = [req EXCEPT ![r] =
                        [q EXCEPT !.pc = "awaiting", !.ip_arg = ip.val, !.calls = 1]]
                 /\ running' = NoTask
    /\ UNCHANGED <<environ, prefix, contract, built, router>>

\* line 64 with user_id kept on the router (self.user_id), shared by its requests
AdapterReturn_SharedUserId(r) ==
    /\ running = NoTask
    /\ req[r].pc = "awaiting"
    /\ \E val \in AdapterReturns :
        req' = [q \in Requests |->
                    IF q = r
                    THEN [req[q] EXCEPT !.pc = "check", !.user_id = val,
                                        !.ret = [kind |-> "return", val |-> val, exc |-> ""]]
                    ELSE IF req[q].pc = "idle" THEN req[q]
                    ELSE [req[q] EXCEPT !.user_id = val]]
    /\ running' = r
    /\ UNCHANGED <<environ, prefix, contract, built, router, served>>

\* line 64: the awaited get_current_user returns a value
AdapterReturn(r) ==
    /\ running = NoTask
    /\ req[r].pc = "awaiting"
    /\ \E val \in AdapterReturns :
        req' = [req EXCEPT ![r].pc = "check", ![r].user_id = val,
                           ![r].ret = [kind |-> "return", val |-> val, exc |-> ""]]
    /\ running' = r
    /\ UNCHANGED <<environ, prefix, contract, built, router, served>>

\* lines 64-66 with the adapter called again after a caught failure
AdapterRaise_Retries(r) ==
    /\ running = NoTask
    /\ req[r].pc = "awaiting"
    /\ \E cls \in AdapterRaises :
        LET raised == [kind |-> "raise", val |-> PyNone, exc |-> cls]
        IN  IF ExceptClauseCatches(cls)
            THEN /\ req' = [req EXCEPT ![r].pc = "awaiting", ![r].ret = raised,
                                       ![r].logged = cls, ![r].calls = @ + 1]
                 /\ running' = NoTask
            ELSE /\ req' = [req EXCEPT ![r].pc = "aborted", ![r].ret = raised,
                                       ![r].resp = Propagated(cls)]
                 /\ running' = NoTask
    /\ UNCHANGED <<environ, prefix, contract, built, router, served>>

\* lines 64-66 with the adapter dropped from the router after a caught failure
AdapterRaise_DropsAdapter(r) ==
    /\ running = NoTask
    /\ req[r].pc = "awaiting"
    /\ \E cls \in AdapterRaises :
        LET raised == [kind |-> "raise", val |-> PyNone, exc |-> cls]
        IN  IF ExceptClauseCatches(cls)
            THEN /\ req' = [req EXCEPT ![r].pc = "check", ![r].ret = raised,
                                       ![r].logged = cls]
                 /\ running' = r
                 /\ router' = [router EXCEPT !.adapter = NoAdapter]
            ELSE /\ req' = [req EXCEPT ![r].pc = "aborted", ![r].ret = raised,
                                       ![r].resp = Propagated(cls)]
                 /\ running' = NoTask
                 /\ router' = router
    /\ UNCHANGED <<environ, prefix, contract, built, served>>

\* lines 64-66: the awaited get_current_user raises; `except Exception` catches
\* and logs, anything else leaves current_user
AdapterRaise(r) ==
    /\ running = NoTask
    /\ req[r].pc = "awaiting"
    /\ \E cls \in AdapterRaises :
        LET raised == [kind |-> "raise", val |-> PyNone, exc |-> cls]
        IN  IF ExceptClauseCatches(cls)
            THEN /\ req' = [req EXCEPT ![r].pc = "check", ![r].ret = raised,
                                       ![r].logged = cls]
                 /\ running' = r
            ELSE /\ req' = [req EXCEPT ![r].pc = "aborted", ![r].ret = raised,
                                       ![r].resp = Propagated(cls)]
                 /\ running' = NoTask
    /\ UNCHANGED <<environ, prefix, contract, built, router, served>>

\* `if user_id is None` in place of the truthiness test
Denied_IsNone(user_id) == user_id = PyNone

\* line 67: if not user_id
Denied(user_id) == ~Truthy(user_id)

\* lines 67-68 with the logged cause put into the response detail
CheckUserId_LeaksCause(r) ==
    /\ running = r
    /\ req[r].pc = "check"
    /\ IF Denied(req[r].user_id)
       THEN /\ req' = [req EXCEPT ![r].pc = "rejected",
                                  ![r].resp = [Forbidden EXCEPT !.detail = req[r].logged]]
            /\ running' = NoTask
       ELSE /\ req' = [req EXCEPT ![r].pc = "set_uid"]
            /\ running' = r
    /\ UNCHANGED <<environ, prefix, contract, built, router, served>>

\* lines 67-68
CheckUserId(r) ==
    /\ running = r
    /\ req[r].pc = "check"
    /\ IF Denied(req[r].user_id)
       THEN /\ req' = [req EXCEPT ![r].pc = "rejected", ![r].resp = Forbidden]
            /\ running' = NoTask
       ELSE /\ req' = [req EXCEPT ![r].pc = "set_uid"]
            /\ running' = r
    /\ UNCHANGED <<environ, prefix, contract, built, router, served>>

\* line 69 followed by a suspension point before line 70
SetCurrentUserId_Yields(r) ==
    /\ running = r
    /\ req[r].pc = "set_uid"
    /\ req' = [req EXCEPT ![r].pc = "set_key", ![r].state_uid = req[r].user_id,
                          ![r].uid_writes = @ + 1]
    /\ running' = NoTask
    /\ UNCHANGED <<environ, prefix, contract, built, router, served>>

\* line 69: request.state.current_user_id = user_id
SetCurrentUserId(r) ==
    /\ running = r
    /\ req[r].pc = "set_uid"
    /\ req' = [req EXCEPT ![r].pc = "set_key", ![r].state_uid = req[r].user_id,
                          ![r].uid_writes = @ + 1]
    /\ UNCHANGED <<environ, prefix, contract, built, router, running, served>>

\* line 70 assigning to current_user_id again instead of api_key
SetApiKey_OverwritesUserId(r) ==
    /\ running = r
    /\ req[r].pc = "set_key"
    /\ req' = [req EXCEPT ![r].pc = "authenticated", ![r].state_uid = req[r].api_key,
                          ![r].uid_writes = @ + 1]
    /\ running' = NoTask
    /\ UNCHANGED <<environ, prefix, contract, built, router, served>>

\* line 70 storing the resolved token in place of the credential
SetApiKey_StoresToken(r) ==
    /\ running = r
    /\ req[r].pc = "set_key"
    /\ req' = [req EXCEPT ![r].pc = "authenticated", ![r].state_key = req[r].user_id,
                          ![r].key_writes = @ + 1]
    /\ running' = NoTask
    /\ UNCHANGED <<environ, prefix, contract, built, router, served>>

\* line 70: request.state.api_key = api_key; current_user returns
SetApiKey(r) ==
    /\ running = r
    /\ req[r].pc = "set_key"
    /\ req' = [req EXCEPT ![r].pc = "authenticated", ![r].state_key = req[r].api_key,
                          ![r].key_writes = @ + 1]
    /\ running' = NoTask
    /\ UNCHANGED <<environ, prefix, contract, built, router, served>>

Terminal == {"authenticated", "rejected", "aborted"}

\* the response is sent and the request object, with its state, is dropped
EndRequest(r) ==
    /\ running = NoTask
    /\ req[r].pc \in Terminal
    /\ req' = [req EXCEPT ![r] = Idle]
    /\ UNCHANGED <<environ, prefix, contract, built, router, running, served>>

Serve(slots, headers) ==
    \E r \in slots :
        \/ StartRequest(r, headers)
        \/ AdapterReturn(r)
        \/ AdapterRaise(r)
        \/ CheckUserId(r)
        \/ SetCurrentUserId(r)
        \/ SetApiKey(r)
        \/ EndRequest(r)

\* concurrent requests on one router
Next == Construct \/ Serve(Requests, BranchHeaders)
Spec == Init /\ [][Next]_vars

\* the code between the await of line 64 and the end of current_user is
\* straight-line and synchronous: once resumed, the coroutine runs to its end
Resumed == \E r \in Requests : CheckUserId(r) \/ SetCurrentUserId(r) \/ SetApiKey(r)
SpecFair == Spec /\ WF_vars(Resumed)

\* one request at a time, over every configuration and header combination
NextSeq == Construct \/ Serve({"r1"}, AllHeaders)
SpecSeq == InitSeq /\ [][NextSeq]_vars

(***************************************************************************)
(* Properties of current_user                                              *)
(***************************************************************************)
StateUnset(r) == req[r].state_uid = Unset /\ req[r].state_key = Unset
Bound == built = "done" /\ router.adapter # NoAdapter
AdapterRaised(r) == req[r].ret.kind = "raise"
AdapterReturned(r) == req[r].ret.kind = "return"

\* C1 as stated: on a bound router, whenever get_current_user raised (any
\* exception class), current_user ends with the 403 "Unauthorized access"
\* response, nothing propagates, and neither request-state field is set.
C1_AnyExceptionRejected ==
    \A r \in Requests :
        (Bound /\ AdapterRaised(r)) =>
            /\ StateUnset(r)
            /\ req[r].resp.kind # "exc"
            /\ req[r].pc \in Terminal => (req[r].pc = "rejected" /\ req[r].resp = Forbidden)

\* C1 amended: on a bound router, when get_current_user raised an exception
\* deriving from Exception, current_user ends rejected with 403 "Unauthorized
\* access" and the exception is logged, not propagated; an exception deriving
\* from BaseException only (CancelledError) leaves current_user unhandled; in
\* both cases neither request-state field is set.
C1_ExceptionRejected ==
    \A r \in Requests :
        (Bound /\ AdapterRaised(r)) =>
            /\ StateUnset(r)
            /\ req[r].ret.exc \in {"ValueError", "HTTPException"} =>
                /\ req[r].resp.kind # "exc"
                /\ req[r].logged = req[r].ret.exc
                /\ req[r].pc \in {"check", "rejected"}
                /\ req[r].pc = "rejected" => req[r].resp = Forbidden
            /\ req[r].ret.exc = "CancelledError" =>
                /\ req[r].pc = "aborted"
                /\ req[r].resp = Propagated("CancelledError")

C1_Witness ==
    \E r \in Requests :
        /\ Bound /\ AdapterRaised(r) /\ req[r].ret.exc = "HTTPException"
        /\ req[r].pc = "rejected" /\ req[r].resp = Forbidden

\* C2: on a bound router, when get_current_user returned None, "", 0 or False,
\* current_user ends rejected with 403 "Unauthorized access", as in the
\* exception case, and neither request-state field is set.
C2_FalsyRejected ==
    \A r \in Requests :
        (Bound /\ AdapterReturned(r) /\ req[r].ret.val \in FalsyReturns) =>
            /\ StateUnset(r)
            /\ req[r].pc \in {"check", "rejected"}
            /\ req[r].pc = "rejected" => req[r].resp = Forbidden
            /\ req[r].pc = "check" => req[r].resp = NoResponse

C2_Witness ==
    \E r \in Requests :
        /\ Bound /\ AdapterReturned(r) /\ req[r].ret.val = PyZero
        /\ req[r].pc = "rejected" /\ req[r].resp = Forbidden /\ StateUnset(r)

\* C3: on a bound router, when get_current_user returned a non-empty token,
\* current_user raises nothing and ends with request.state.current_user_id
\* equal to that token and request.state.api_key equal to the credential the
\* request presented.
C3_TokenAuthenticates ==
    \A r \in Requests :
        (Bound /\ AdapterReturned(r) /\ req[r].ret.val \in Tokens) =>
            /\ req[r].resp = NoResponse
            /\ req[r].pc \in {"check", "set_uid", "set_key", "authenticated"}
            /\ req[r].pc = "authenticated" =>
                /\ req[r].state_uid = req[r].ret.val
                /\ req[r].state_key = req[r].api_key

C3_Witness ==
    \E r \in Requests :
        /\ Bound /\ AdapterReturned(r) /\ req[r].ret.val = PyStr("u2")
        /\ req[r].pc = "authenticated"
        /\ req[r].state_uid = PyStr("u2") /\ req[r].state_key = req[r].api_key

\* what another coroutine or a downstream handler can see of request r: the
\* event loop is not inside r's current_user
Observable(r) == running # r

\* C4: in every state another request or a downstream handler can observe,
\* current_user_id and api_key of a request are both unset or both set; they
\* are set only when the request's own get_current_user returned a truthy
\* token and the request is Authenticated; a Rejected request has neither.
C4_AllOrNothing ==
    \A r \in Requests :
        Observable(r) =>
            /\ (req[r].state_uid = Unset) <=> (req[r].state_key = Unset)
            /\ ~StateUnset(r) =>
                /\ AdapterReturned(r) /\ Truthy(req[r].ret.val)
                /\ req[r].state_uid = req[r].ret.val
                /\ req[r].pc = "authenticated"
            /\ req[r].pc = "rejected" => StateUnset(r)

C4_Witness ==
    \E r1, r2 \in Requests :
        /\ running = NoTask
        /\ req[r1].pc = "authenticated" /\ ~StateUnset(r1)
        /\ req[r2].pc = "rejected" /\ StateUnset(r2)

(***************************************************************************)
(* Properties of create_adapter                                            *)
(***************************************************************************)
\* the router names of the modelled prefixes, written out
NameOf(p) ==
    CASE p = <<"/", "s", "t">> -> <<"s", "t">>
      [] p = <<"/", "S", "T">> -> <<"S", "T">>
      [] p = <<"/", "s", "/", "t">> -> <<"s", "t">>
      [] p = <<"/", " ", "s", "t">> -> <<"s", "t">>
\* IRI_API_ADAPTER_<name as written in the prefix>
KeyAsWritten(p) == <<"IRI_API_ADAPTER_">> \o NameOf(p)
\* IRI_API_ADAPTER_<NAME>: every modelled name uppercases to ST
KeyUppercased(p) == <<"IRI_API_ADAPTER_", "S", "T">>

Constructed == built # "pending"
FlagTruthy(key) ==
    key \in DOMAIN environ /\ environ[key] \in {<<"true">>, <<"1">>, <<"on">>, <<"yes">>}
Hidden ==
    /\ built = "done"
    /\ router.include_in_schema = FALSE
    /\ router.adapter = NoAdapter
    /\ router.effects = {}
    /\ router.raised = NoExc
BoundTo(loc) ==
    /\ built = "done"
    /\ router.include_in_schema = TRUE
    /\ router.adapter = loc
    /\ router.raised = NoExc

\* C5: a constructed router whose adapter key is absent, with the show-missing
\* flag unset or outside {"true","1","on","yes"}, has include_in_schema false
\* and no adapter, and construction imported, validated and instantiated nothing.
C5_UnconfiguredHidden ==
    (Constructed /\ KeyAsWritten(prefix) \notin DOMAIN environ
        /\ ~FlagTruthy(<<"IRI_SHOW_MISSING_ROUTES">>))
    => Hidden

C5_Witness ==
    /\ Constructed /\ KeyAsWritten(prefix) \notin DOMAIN environ
    /\ <<"IRI_SHOW_MISSING_ROUTES">> \in DOMAIN environ
    /\ environ[<<"IRI_SHOW_MISSING_ROUTES">>] = <<"True">>
    /\ Hidden

\* C6 as stated: with IRI_API_SHOW_MISSING_ROUTES set to "true", "1", "on" or
\* "yes" and no adapter key configured, a router constructed with the contract
\* stays visible and is bound to the default demo adapter.
C6_ApiShowMissingBindsDefault ==
    (Constructed /\ contract = Contract
        /\ (\A k \in AdapterKeys : k \notin DOMAIN environ)
        /\ FlagTruthy(<<"IRI_API_SHOW_MISSING_ROUTES">>))
    => BoundTo(DefaultLocator)

\* C6 amended: with IRI_SHOW_MISSING_ROUTES (the key the code reads) set to
\* "true", "1", "on" or "yes" and the router's adapter key absent, a router
\* constructed with the contract stays visible and is bound to an instance of
\* app.demo_adapter.DemoAdapter.
C6_ShowMissingBindsDefault ==
    (Constructed /\ contract = Contract
        /\ KeyAsWritten(prefix) \notin DOMAIN environ
        /\ FlagTruthy(<<"IRI_SHOW_MISSING_ROUTES">>))
    => (BoundTo(DefaultLocator) /\ "instantiate" \in router.effects)

C6_Witness ==
    /\ Constructed /\ contract = Contract
    /\ KeyAsWritten(prefix) \notin DOMAIN environ
    /\ <<"IRI_SHOW_MISSING_ROUTES">> \in DOMAIN environ
    /\ environ[<<"IRI_SHOW_MISSING_ROUTES">>] = <<"on">>
    /\ BoundTo(DefaultLocator)

\* the configured locator of the router and the class it names
Configured == KeyAsWritten(prefix) \in DOMAIN environ
ConfiguredLocator == environ[KeyAsWritten(prefix)]
NamesClass(loc) ==
    /\ Len(loc) = 3
    /\ <<loc[1], loc[2]>> \in DOMAIN Modules
    /\ loc[3] \in DOMAIN Modules[<<loc[1], loc[2]>>]
    /\ Modules[<<loc[1], loc[2]>>][loc[3]].isclass
ClassOf(loc) == Modules[<<loc[1], loc[2]>>][loc[3]]
LacksAnOperation(loc) ==
    NamesClass(loc) /\ ~({"get_current_user", "get_user"} \subseteq ClassOf(loc).methods)

\* C7 as stated: when the configured locator names a class that does not
\* implement both get_current_user and get_user, construction with the contract
\* fails with an exception naming the locator and the contract, and no adapter
\* is bound.
C7_ContractMismatchNamesLocator ==
    (Constructed /\ contract = Contract /\ Configured /\ LacksAnOperation(ConfiguredLocator))
    => /\ built = "failed"
       /\ router.adapter = NoAdapter
       /\ router.raised.type = "Exception"
       /\ router.raised.locator = ConfiguredLocator
       /\ router.raised.contract = "FacilityAdapter"

\* C7 amended: construction fails and no adapter is bound; the exception names
\* the locator and "FacilityAdapter" when the class is not a subclass of the
\* contract, and is the TypeError of instantiating an abstract class (naming
\* neither) when the class subclasses the contract but leaves an operation
\* unimplemented.
C7_ContractMismatchFails ==
    (Constructed /\ contract = Contract /\ Configured /\ LacksAnOperation(ConfiguredLocator))
    => /\ built = "failed"
       /\ router.adapter = NoAdapter
       /\ Contract \notin ClassOf(ConfiguredLocator).bases =>
            /\ router.raised.type = "Exception"
            /\ router.raised.locator = ConfiguredLocator
            /\ router.raised.contract = "FacilityAdapter"
            /\ "instantiate" \notin router.effects
       /\ Contract \in ClassOf(ConfiguredLocator).bases =>
            /\ router.raised = PyRaise("TypeError")
            /\ "instantiate" \in router.effects

C7_Witness ==
    /\ Constructed /\ contract = Contract /\ Configured
    /\ ConfiguredLocator = OtherLocator
    /\ built = "failed" /\ router.adapter = NoAdapter
    /\ router.raised.type = "Exception" /\ router.raised.locator = OtherLocator

\* the locator's module is not importable, or the module lacks the symbol
UnknownModule(loc) ==
    \/ Len(loc) = 1 /\ loc \notin DOMAIN Modules
    \/ Len(loc) = 3 /\ <<loc[1], loc[2]>> \notin DOMAIN Modules
UnknownSymbol(loc) ==
    /\ Len(loc) = 3
    /\ <<loc[1], loc[2]>> \in DOMAIN Modules
    /\ loc[3] \notin DOMAIN Modules[<<loc[1], loc[2]>>]

\* C8: when the configured locator names a module that cannot be imported or
\* a symbol its module lacks, construction fails with ImportError or
\* AttributeError respectively, no adapter is bound, and no request is ever
\* accepted on the router.
C8_BadLocatorFailsAtStartup ==
    (Constructed /\ Configured
        /\ (UnknownModule(ConfiguredLocator) \/ UnknownSymbol(ConfiguredLocator)))
    => /\ built = "failed"
       /\ router.adapter = NoAdapter
       /\ UnknownModule(ConfiguredLocator) => router.raised = PyRaise("ImportError")
       /\ UnknownSymbol(ConfiguredLocator) => router.raised = PyRaise("AttributeError")
       /\ served = 0
       /\ \A r \in Requests : req[r] = Idle

C8_Witness ==
    /\ Constructed /\ Configured /\ ConfiguredLocator = MissingSymbolLocator
    /\ built = "failed" /\ router.raised.type = "AttributeError"
    /\ router.adapter = NoAdapter /\ served = 0

\* C9 as stated: the key consulted is IRI_API_ADAPTER_ followed by the
\* uppercased group name, so a router whose adapter is configured under the
\* uppercased key is visible and bound to that locator.
C9_UppercasedKeyBinds ==
    (Constructed /\ contract = Contract
        /\ KeyUppercased(prefix) \in DOMAIN environ
        /\ environ[KeyUppercased(prefix)] = GoodLocator)
    => BoundTo(GoodLocator)

\* C9 amended: the key consulted is IRI_API_ADAPTER_ followed by the group
\* name in the case the prefix has it (path separators removed, surrounding
\* whitespace stripped): a router configured under that key is visible and
\* bound to the locator, and a router with only a differently-cased key and no
\* show-missing flag is hidden.
C9_KeyAsWrittenBinds ==
    /\ (Constructed /\ contract = Contract /\ Configured /\ ConfiguredLocator = GoodLocator)
        => BoundTo(GoodLocator)
    /\ (Constructed /\ ~Configured /\ ~FlagTruthy(<<"IRI_SHOW_MISSING_ROUTES">>))
        => Hidden

C9_Witness ==
    /\ Constructed /\ contract = Contract
    /\ prefix = <<"/", "s", "/", "t">>
    /\ <<"IRI_API_ADAPTER_", "s", "t">> \in DOMAIN environ
    /\ environ[<<"IRI_API_ADAPTER_", "s", "t">>] = GoodLocator
    /\ BoundTo(GoodLocator)

(***************************************************************************)
(* Properties of get_real_ip                                               *)
(***************************************************************************)
Present(h) == h # PyNone
NonEmpty(h) == h # PyNone /\ h # PyStr("")
\* the request reached the adapter call: get_real_ip returned ip_arg
Extracted(r) == req[r].calls = 1

\* C10 as stated: the extracted address is HTTP_X_REAL_IP if that header is
\* present, else x-real-ip if present, else the peer address.
C10_PresentHeaderWins ==
    \A r \in {"r1"} :
        Extracted(r) =>
            req[r].ip_arg =
                IF Present(req[r].http) THEN req[r].http
                ELSE IF Present(req[r].xreal) THEN req[r].xreal
                ELSE req[r].client

\* C10 amended: the extracted address is HTTP_X_REAL_IP if that header is
\* present with a non-empty value, else x-real-ip if present with a non-empty
\* value, else the peer address; when neither header has a value and the
\* request has no peer address the extraction raises and the adapter is not
\* called.  x-real-ip: 9.9.9.9 without HTTP_X_REAL_IP yields 9.9.9.9.
C10_NonEmptyHeaderWins ==
    \A r \in {"r1"} :
        (Bound /\ req[r].pc # "idle") =>
            IF NonEmpty(req[r].http) THEN Extracted(r) /\ req[r].ip_arg = req[r].http
            ELSE IF NonEmpty(req[r].xreal) THEN Extracted(r) /\ req[r].ip_arg = req[r].xreal
            ELSE IF req[r].client # PyNone THEN Extracted(r) /\ req[r].ip_arg = req[r].client
            ELSE ~Extracted(r) /\ req[r].ip_arg = NotCalled

C10_Witness ==
    /\ Bound
    /\ req["r1"].http = PyNone /\ req["r1"].xreal = PyStr("9.9.9.9")
    /\ Extracted("r1") /\ req["r1"].ip_arg = PyStr("9.9.9.9")

(***************************************************************************)
(* Properties of concurrent requests                                       *)
(***************************************************************************)
IdentityOf(r) == <<req[r].state_uid, req[r].state_key>>

\* C11: under any interleaving of the requests of one router, a request that
\* is Authenticated holds the token its own get_current_user call returned
\* and the credential it presented; a request's identity state changes only
\* in that request's own steps, and a step that rejects one request changes
\* nothing of the others.
C11_NoCrossRequestLeak ==
    /\ [](\A r \in Requests :
            req[r].pc = "authenticated" =>
                /\ AdapterReturned(r)
                /\ req[r].state_uid = req[r].ret.val
                /\ req[r].state_key = req[r].api_key)
    /\ [][\A r \in Requests :
            /\ IdentityOf(r)' # IdentityOf(r) => (running = r \/ req'[r].pc = "idle")
            /\ (req[r].pc # "rejected" /\ req'[r].pc = "rejected") =>
                    \A q \in Requests \ {r} : req'[q] = req[q]]_vars

C11_Witness ==
    /\ req["r1"].pc = "authenticated" /\ req["r2"].pc = "authenticated"
    /\ req["r1"].ret.val = PyStr("u1") /\ req["r2"].ret.val = PyStr("u2")
    /\ req["r1"].api_key = PyStr("k2") /\ req["r2"].api_key = PyStr("k1")
    /\ IdentityOf("r1") = <<PyStr("u1"), PyStr("k2")>>
    /\ IdentityOf("r2") = <<PyStr("u2"), PyStr("k1")>>

\* C12: within one request current_user assigns current_user_id once and
\* api_key once, both while it is still executing (before it returns and a
\* downstream handler can run), and a field once set keeps its value until
\* the request ends.
C12_WriteOnce ==
    /\ [](\A r \in Requests :
            /\ req[r].uid_writes <= 1 /\ req[r].key_writes <= 1
            /\ (req[r].state_uid # Unset) <=> (req[r].uid_writes = 1)
            /\ (req[r].state_key # Unset) <=> (req[r].key_writes = 1)
            /\ req[r].pc = "authenticated" =>
                    (req[r].uid_writes = 1 /\ req[r].key_writes = 1))
    /\ [][\A r \in Requests :
            /\ (req[r].state_uid # Unset /\ req'[r].pc # "idle") =>
                    req'[r].state_uid = req[r].state_uid
            /\ (req[r].state_key # Unset /\ req'[r].pc # "idle") =>
                    req'[r].state_key = req[r].state_key
            /\ (req'[r].uid_writes > req[r].uid_writes) => req[r].pc = "set_uid"
            /\ (req'[r].key_writes > req[r].key_writes) => req[r].pc = "set_key"]_vars

C12_Witness ==
    \E r \in Requests :
        /\ req[r].pc = "authenticated"
        /\ req[r].uid_writes = 1 /\ req[r].key_writes = 1
        /\ req[r].state_uid = PyStr("u1") /\ req[r].state_key = PyStr("k1")

(***************************************************************************)
(* Properties relating construction and serving                            *)
(***************************************************************************)
\* C13: the binding is resolved once, by construction; afterwards no step of
\* any request (authenticated, rejected or failing) changes the router's
\* adapter, its include_in_schema flag or the outcome of construction.
C13_BindingNeverChanges ==
    /\ [](built = "pending" => router = Built(TRUE, NoAdapter, NoExc, {}))
    /\ [][built # "pending" => (router' = router /\ built' = built)]_vars

C13_Witness ==
    /\ BoundTo(GoodLocator)
    /\ served = MaxServed
    /\ \E r \in Requests : req[r].pc = "rejected" /\ AdapterRaised(r)
    /\ \E r \in Requests : req[r].pc = "authenticated"

(***************************************************************************)
(* Properties of the response and of the per-request state machine         *)
(***************************************************************************)
ReturnedFalsy(r) == AdapterReturned(r) /\ req[r].ret.val \in FalsyReturns
RaisedCaught(r) == AdapterRaised(r) /\ req[r].ret.exc \in {"ValueError", "HTTPException"}
Ended(r) == req[r].pc \in {"authenticated", "rejected", "aborted"}

\* C14 as stated: two requests whose identity resolution failed for any cause
\* (an exception of any type, a falsy return, the adapter's own HTTP error)
\* end with the same response, 403 "Unauthorized access".
C14_SameResponseAnyCause ==
    \A r1, r2 \in Requests :
        (Bound /\ Ended(r1) /\ Ended(r2)
            /\ (AdapterRaised(r1) \/ ReturnedFalsy(r1))
            /\ (AdapterRaised(r2) \/ ReturnedFalsy(r2)))
        => (req[r1].resp = Forbidden /\ req[r2].resp = req[r1].resp)

\* C14 amended: two requests whose identity resolution failed by an exception
\* deriving from Exception (the adapter's own HTTPException included) or by a
\* falsy return end with the same response, 403 "Unauthorized access", which
\* carries nothing of the cause.
C14_SameResponseCaughtCause ==
    \A r1, r2 \in Requests :
        (Bound /\ Ended(r1) /\ Ended(r2)
            /\ (RaisedCaught(r1) \/ ReturnedFalsy(r1))
            /\ (RaisedCaught(r2) \/ ReturnedFalsy(r2)))
        => /\ req[r1].resp = [kind |-> "http", status |-> 403,
                              detail |-> "Unauthorized access", exc |-> ""]
           /\ req[r2].resp = req[r1].resp

C14_Witness ==
    /\ Bound
    /\ req["r1"].pc = "rejected" /\ req["r1"].ret.exc = "HTTPException"
    /\ req["r2"].pc = "rejected" /\ req["r2"].ret.val = PyStr("") /\ AdapterReturned("r2")
    /\ req["r1"].resp = req["r2"].resp

\* the address get_real_ip yields for the request in slot r
ExpectedIp(r) ==
    IF NonEmpty(req[r].http) THEN req[r].http
    ELSE IF NonEmpty(req[r].xreal) THEN req[r].xreal
    ELSE req[r].client

PcSteps ==
    {<<"idle", "awaiting">>, <<"idle", "check">>, <<"awaiting", "check">>,
     <<"awaiting", "aborted">>, <<"check", "rejected">>, <<"check", "set_uid">>,
     <<"set_uid", "set_key">>, <<"set_key", "authenticated">>,
     <<"authenticated", "idle">>, <<"rejected", "idle">>, <<"aborted", "idle">>}

\* C15 as stated: once the adapter call has returned or raised, the request is
\* on its way to, or in, one of the two terminal states Authenticated and
\* Rejected.
C15_OnlyTwoOutcomes ==
    \A r \in Requests :
        (AdapterReturned(r) \/ AdapterRaised(r)) =>
            req[r].pc \in {"check", "set_uid", "set_key", "authenticated", "rejected"}

\* C15 amended: a request makes at most one get_current_user call and never
\* retries; the address passed is the one get_real_ip extracted before the
\* call; the position of a request moves only along idle -> (awaiting) ->
\* check -> rejected | set_uid -> set_key -> authenticated; after a return or
\* an exception deriving from Exception the request reaches Authenticated or
\* Rejected and then takes no step but its end; an exception deriving from
\* BaseException only ends current_user in neither state.
C15_SingleAttemptStateMachine ==
    /\ [](\A r \in Requests :
            /\ req[r].calls <= 1
            /\ req[r].calls = 1 => req[r].ip_arg = ExpectedIp(r)
            /\ req[r].calls = 0 => (req[r].ip_arg = NotCalled /\ req[r].ret = NoReturn)
            /\ req[r].pc = "aborted" <=> req[r].ret.exc = "CancelledError")
    /\ [][\A r \in Requests :
            /\ req'[r].pc # req[r].pc => <<req[r].pc, req'[r].pc>> \in PcSteps
            /\ req'[r].calls # req[r].calls => (req[r].pc = "idle" \/ req'[r].pc = "idle")
            /\ req'[r].ret # req[r].ret => (req[r].pc = "awaiting" \/ req'[r].pc = "idle")]_vars
    /\ \A r \in Requests :
            (req[r].pc = "check") ~> (req[r].pc \in {"authenticated", "rejected"})

C15_Witness ==
    \E r \in Requests :
        /\ req[r].pc = "rejected" /\ AdapterRaised(r) /\ req[r].calls = 1
        /\ req[r].xreal = PyStr("9.9.9.9") /\ req[r].ip_arg = PyStr("9.9.9.9")

(***************************************************************************)
(* Properties of startup order, of the configured locator and of failure   *)
(* outside the adapter                                                     *)
(***************************************************************************)
\* C16: a request is accepted on a router only after its construction has
\* finished by binding an adapter or hiding the group; when construction
\* raised, no request is ever accepted, so none is authenticated.
C16_NoTrafficBeforeBinding ==
    /\ built # "done" => (served = 0 /\ \A r \in Requests : req[r] = Idle)
    /\ built = "failed" <=> router.raised # NoExc
    /\ built = "done" =>
        \/ (router.adapter = NoAdapter /\ router.include_in_schema = FALSE)
        \/ (router.adapter # NoAdapter /\ "instantiate" \in router.effects)

C16_Witness ==
    /\ built = "done" /\ router.adapter = DefaultLocator
    /\ req["r1"].pc = "authenticated" /\ served = 1

\* C17: with the router's adapter key present, the group is visible and the
\* locator loaded is the configured one whatever the show-missing flag holds;
\* the default locator is bound, without being configured, only when the key
\* is absent and the flag is truthy.
C17_ConfiguredLocatorWins ==
    /\ (Constructed /\ Configured) =>
        /\ router.include_in_schema = TRUE
        /\ built = "done" => router.adapter = ConfiguredLocator
        /\ router.raised.type = "Exception" => router.raised.locator = ConfiguredLocator
        /\ (ConfiguredLocator = GoodLocator /\ contract = Contract) => BoundTo(GoodLocator)
    /\ (Constructed /\ router.adapter = DefaultLocator
            /\ ~(Configured /\ ConfiguredLocator = DefaultLocator))
        => (~Configured /\ FlagTruthy(<<"IRI_SHOW_MISSING_ROUTES">>))

C17_Witness ==
    /\ Configured /\ ConfiguredLocator = GoodLocator
    /\ <<"IRI_SHOW_MISSING_ROUTES">> \in DOMAIN environ
    /\ environ[<<"IRI_SHOW_MISSING_ROUTES">>] = <<"false">>
    /\ BoundTo(GoodLocator)

\* C18: on a router constructed hidden (no adapter attribute), every
\* current_user call ends rejected with 403 "Unauthorized access" without
\* setting a request-state field or calling an adapter; no request on it is
\* Authenticated.
C18_HiddenFailsClosed ==
    (built = "done" /\ router.adapter = NoAdapter) =>
        \A r \in Requests :
            /\ StateUnset(r)
            /\ req[r].calls = 0
            /\ req[r].pc \in {"idle", "check", "rejected"}
            /\ req[r].resp.kind # "exc"
            /\ req[r].pc = "rejected" => req[r].resp = Forbidden

C18_Witness ==
    /\ built = "done" /\ router.adapter = NoAdapter /\ router.include_in_schema = FALSE
    /\ req["r1"].pc = "rejected" /\ req["r1"].resp = Forbidden
    /\ req["r2"].pc = "rejected" /\ req["r2"].api_key = PyStr("k2")

\* C19: on a bound router, a request with no usable real-IP header and no
\* peer address makes get_real_ip raise inside the try: get_current_user is
\* not called, the request ends rejected with 403 "Unauthorized access", not
\* with an unhandled error, and no request-state field is set.
C19_IpFailureRejected ==
    \A r \in Requests :
        (Bound /\ req[r].pc # "idle"
            /\ ~NonEmpty(req[r].http) /\ ~NonEmpty(req[r].xreal) /\ req[r].client = PyNone)
        => /\ req[r].calls = 0 /\ req[r].ip_arg = NotCalled /\ req[r].ret = NoReturn
           /\ req[r].logged = "AttributeError"
           /\ StateUnset(r)
           /\ req[r].pc \in {"check", "rejected"}
           /\ req[r].resp.kind # "exc"
           /\ req[r].pc = "rejected" => req[r].resp = Forbidden

C19_Witness ==
    /\ Bound
    /\ req["r1"].http = PyNone /\ req["r1"].xreal = PyNone /\ req["r1"].client = PyNone
    /\ req["r1"].pc = "rejected" /\ req["r1"].resp = Forbidden /\ req["r1"].calls = 0

====
